---- MODULE Spec2Model ----
(***************************************************************************)
(* Model of system/sudoers.py: the Sudoers class (lock / rollback /        *)
(* commit, pattern construction, is_listed, remove_user, add_user) and the *)
(* transaction that main() drives over the live sudoers file and its       *)
(* staged copy "<sudoers_path>.tmp".                                       *)
(*                                                                         *)
(* Text is modelled at character level: a string is a sequence of          *)
(* one-character strings and a file is the sequence of its characters, so  *)
(* that readlines(), strip(), re.match() and the append in add_user() are  *)
(* computed the way the code computes them.                                *)
(***************************************************************************)
EXTENDS Integers, Sequences, FiniteSets, TLC

(***************************************************************************)
(* Bounds of the model.                                                    *)
(***************************************************************************)
\* Number of concurrent invocations (operating-system processes) in Spec.
NumProcs == 2
\* Number of successive invocations the single caller of SpecSeq runs.
MaxRuns == 2
\* Largest number of lines of the live file in an initial state.
MaxLines == 2

(***************************************************************************)
(* Strings.                                                                *)
(***************************************************************************)
NL == "\n"
Whitespace == {" ", "\n", "\t"}

\* str.strip(): drop leading and trailing whitespace (sudoers.py:190, 209).
RECURSIVE LStrip(_)
LStrip(s) ==
    IF s # <<>> /\ Head(s) \in Whitespace THEN LStrip(Tail(s)) ELSE s

RECURSIVE RStrip(_)
RStrip(s) ==
    IF s # <<>> /\ s[Len(s)] \in Whitespace
    THEN RStrip(SubSeq(s, 1, Len(s) - 1))
    ELSE s

Strip(s) == RStrip(LStrip(s))

\* str.startswith('#') (sudoers.py:191).
StartsWithHash(s) == s # <<>> /\ Head(s) = "#"

\* file.readlines(): the lines of a file's content, each keeping its "\n";
\* a last line without terminator is returned as it is (sudoers.py:168).
RECURSIVE SplitLines(_, _)
SplitLines(content, cur) ==
    IF content = <<>>
    THEN IF cur = <<>> THEN <<>> ELSE <<cur>>
    ELSE IF Head(content) = NL
         THEN <<Append(cur, NL)>> \o SplitLines(Tail(content), <<>>)
         ELSE SplitLines(Tail(content), Append(cur, Head(content)))

\* Sudoers.readlines (lines 166-170) on an existing file.
readlines(content) == SplitLines(content, <<>>)

\* The characters written by a sequence of f.write(line) calls.
RECURSIVE Concat(_)
Concat(lines) ==
    IF lines = <<>> THEN <<>> ELSE Head(lines) \o Concat(Tail(lines))

(***************************************************************************)
(* re.match(pattern, string) for the pattern syntax that the code's        *)
(* patterns can contain: "^", "$", ".", "*" after an atom, a backslash     *)
(* escape, and literal characters.  The name, host and commands are        *)
(* interpolated into the pattern unescaped (sudoers.py:146-163), so their  *)
(* characters are pattern syntax too.                                      *)
(***************************************************************************)
\* One pattern atom (a literal, an escaped character or ".") against a char.
AtomMatches(atom, c) ==
    IF Head(atom) = "\\" THEN c = atom[2]
    ELSE IF Head(atom) = "." THEN c # NL
    ELSE c = Head(atom)

RECURSIVE MatchHere(_, _)
RECURSIVE MatchStar(_, _, _)

\* An atom, then the rest of the pattern: atom* when the rest starts with
\* "*", else one occurrence of the atom.
MatchAtom(atom, rest, s) ==
    IF rest # <<>> /\ Head(rest) = "*"
    THEN MatchStar(atom, Tail(rest), s)
    ELSE /\ s # <<>>
         /\ AtomMatches(atom, Head(s))
         /\ MatchHere(rest, Tail(s))

\* Does pattern re match a prefix of s (anchored at the start of s)?  The
\* next atom is a backslash with the character it escapes, or one character.
MatchHere(re, s) ==
    IF re = <<>> THEN TRUE
    ELSE IF Head(re) = "^" THEN MatchHere(Tail(re), s)
    ELSE IF Head(re) = "$"
         THEN (s = <<>> \/ s = <<NL>>) /\ MatchHere(Tail(re), s)
    ELSE IF Head(re) = "\\"
         THEN MatchAtom(<<"\\", Head(Tail(re))>>, Tail(Tail(re)), s)
    ELSE MatchAtom(<<Head(re)>>, Tail(re), s)

\* atom* followed by rest: zero or more occurrences, with backtracking.
MatchStar(atom, rest, s) ==
    \/ MatchHere(rest, s)
    \/ /\ s # <<>>
       /\ AtomMatches(atom, Head(s))
       /\ MatchStar(atom, rest, Tail(s))

\* re.match: the match is tried at the start of the string only.  The pattern
\* and the string are bound by \E, so that TLC computes each of them once.
ReMatch(pattern, s) ==
    \E re \in {pattern} : \E str \in {s} : MatchHere(re, str)

(***************************************************************************)
(* Sudoers: pattern construction and the rendered entry.                   *)
(* A grant specification sp is a record                                    *)
(*   [name, kind, host, password_required, commands]                       *)
(* as stored by Sudoers.__init__ (sudoers.py:111-118).                     *)
(***************************************************************************)
\* The principal as written in the file: "name" or "%name".
Identity(sp) ==
    IF sp.kind = "user" THEN sp.name ELSE <<"%">> \o sp.name

get_large_pattern(sp) == <<"^">> \o Identity(sp)

get_strict_pattern(sp) ==
    <<"^">> \o Identity(sp)
    \o <<" ">> \o sp.host \o <<"=">>
    \o <<"\\", "(", "A", "L", "L", "\\", ")">>
    \o (IF ~sp.password_required
        THEN <<" ", "N", "O", "P", "A", "S", "S", "W", "D", ":">>
        ELSE <<>>)
    \o <<" ">> \o sp.commands \o <<"$">>

\* The entry add_user writes, with its line terminator.
Entry(sp) ==
    Identity(sp)
    \o <<" ">> \o sp.host \o <<"=", "(", "A", "L", "L", ")">>
    \o (IF ~sp.password_required
        THEN <<" ", "N", "O", "P", "A", "S", "S", "W", "D", ":">>
        ELSE <<>>)
    \o <<" ">> \o sp.commands \o <<NL>>

\* One iteration of the loop of is_listed (lines 189-198): acc is the pair
\* (listed, listed_exactly) so far.  A line whose stripped form starts with
\* "#" is skipped; a strict match sets both flags; otherwise (elif) a match of
\* the large pattern sets listed.
is_listed_line(acc, line, sp) ==
    LET stripped == Strip(line)
    IN  IF StartsWithHash(stripped) THEN acc
        ELSE IF ReMatch(get_strict_pattern(sp), stripped)
             THEN [listed |-> TRUE, listed_exactly |-> TRUE]
        ELSE IF ReMatch(get_large_pattern(sp), stripped)
             THEN [acc EXCEPT !.listed = TRUE]
        ELSE acc

RECURSIVE is_listed_loop(_, _, _)
is_listed_loop(acc, lines, sp) ==
    IF lines = <<>> THEN acc
    ELSE is_listed_loop(is_listed_line(acc, Head(lines), sp), Tail(lines), sp)

\* The loop of is_listed over the lines read, from (False, False) (line 177):
\* the pair (listed, listed_exactly) it returns.
Classify(lines, sp) ==
    is_listed_loop([listed |-> FALSE, listed_exactly |-> FALSE], lines, sp)

\* The lines remove_user keeps: those whose stripped form does not match the
\* large pattern, in their order.
RECURSIVE KeptLines(_, _)
KeptLines(lines, sp) ==
    IF lines = <<>> THEN <<>>
    ELSE (IF ReMatch(get_large_pattern(sp), Strip(Head(lines)))
          THEN <<>> ELSE <<Head(lines)>>)
         \o KeptLines(Tail(lines), sp)

(***************************************************************************)
(* Inputs: the strings, grant specifications, requests and initial files   *)
(* the model draws from.                                                   *)
(***************************************************************************)
sJo  == <<"j", "o">>
sJoe == <<"j", "o", "e">>
sALL == <<"A", "L", "L">>
sHx  == <<"h", ".", "x">>
sLs  == <<"/", "l", " ", "*">>

GrantSpec(name, kind, host, pw, commands) ==
    [name |-> name, kind |-> kind, host |-> host,
     password_required |-> pw, commands |-> commands]

\* The default grant for user jo (host=ALL, commands=ALL, password required,
\* sudoers.py:246-251), each variation of it in one field, and user joe, whose
\* name has jo's as a proper prefix.
SpecJo       == GrantSpec(sJo,  "user",  sALL, TRUE,  sALL)
SpecJoNoPw   == GrantSpec(sJo,  "user",  sALL, FALSE, sALL)
SpecJoHost   == GrantSpec(sJo,  "user",  sHx,  TRUE,  sALL)
SpecJoCmd    == GrantSpec(sJo,  "user",  sALL, TRUE,  sLs)
SpecJoGroup  == GrantSpec(sJo,  "group", sALL, TRUE,  sALL)
SpecJoe      == GrantSpec(sJoe, "user",  sALL, TRUE,  sALL)

GrantSpecs ==
    {SpecJo, SpecJoNoPw, SpecJoHost, SpecJoCmd, SpecJoGroup, SpecJoe}

\* The grant specifications the methods are called with on their own: the
\* above, and user jo on host "hax", which the pattern of host "h.x" reads as
\* one of its instances.
sHax == <<"h", "a", "x">>
SpecJoHax == GrantSpec(sJo, "user", sHax, TRUE, sALL)
MethodSpecs == GrantSpecs \cup {SpecJoHax}

\* The parameters of one invocation (module.params, sudoers.py:259-263);
\* cfg_file is fixed by the file under study, see the variable cfg_file.
Requests ==
    [spec : GrantSpecs, state : {"present", "absent"}, backup : BOOLEAN]

\* Lines an initial file is made of, without their terminator.
DropLast(s) == SubSeq(s, 1, Len(s) - 1)
LinePool ==
    {DropLast(Entry(SpecJo)), DropLast(Entry(SpecJoHost)),
     DropLast(Entry(SpecJoe)), <<"#", "c">>}

RECURSIVE SeqsUpTo(_, _)
SeqsUpTo(S, n) ==
    IF n = 0 THEN {<<>>}
    ELSE LET shorter == SeqsUpTo(S, n - 1)
         IN  shorter \cup {Append(q, x) : q \in shorter, x \in S}

\* Lines joined with "\n"; the last line is terminated iff final.
RECURSIVE Join(_, _)
Join(lines, final) ==
    IF lines = <<>> THEN <<>>
    ELSE IF Len(lines) = 1
         THEN Head(lines) \o (IF final THEN <<NL>> ELSE <<>>)
         ELSE Head(lines) \o <<NL>> \o Join(Tail(lines), final)

\* Initial contents of the live file: up to MaxLines lines of the pool, the
\* last line with or without its terminator.
InitialFiles ==
    {Join(q, final) : q \in SeqsUpTo(LinePool, MaxLines), final \in BOOLEAN}

(***************************************************************************)
(* State.                                                                  *)
(***************************************************************************)
VARIABLES
    live,        \* content of the live file, self.sudoers_path
    liveExists,  \* whether the live file exists
    tmp,         \* content of the staged file, self.sudoers_tmp_path
    tmpExists,   \* whether the staged file exists
    cfg_file,    \* TRUE iff the live file is a fragment under sudoers.d, which
                 \* the invocations on it name by their cfg_file parameter
    inv,         \* per process: the invocation it runs, see IdleInv
    runs,        \* number of invocations started
    prev         \* SpecSeq: summary of the invocation that ran before

vars == <<live, liveExists, tmp, tmpExists, cfg_file, inv, runs, prev>>

Procs == 1..NumProcs

NoRequest == [spec |-> SpecJo, state |-> "present", backup |-> FALSE]

\* An invocation: its position in main() and the Sudoers methods (pc), its
\* parameters (req), the locals of main() (listed, listed_exactly, changed),
\* how it ended (result), and what it did so far:
\*   action      the branch of main() taken: none, noop, remove, replace, add
\*   sawAbsent   lock() found no staged file at its check (line 129)
\*   raced       lock()'s copy (line 132) found a staged file although its
\*               check had found none
\*   locked      lock() has returned normally
\*   visudo      the validator's answer: none, ok, failed
\*   live0       content of the live file when the invocation started
\*   liveAtLock  content of the live file when lock() copied it
\*   liveWrites  number of times this invocation changed the live file
\*   wroteTmp    this invocation created, wrote or removed the staged file
\*   edited      remove_user or add_user has been called
\*   nbackup     number of calls of module.backup_local
IdleInv ==
    [pc |-> "idle", req |-> NoRequest,
     listed |-> FALSE, listed_exactly |-> FALSE, changed |-> FALSE,
     result |-> "none", action |-> "none",
     sawAbsent |-> FALSE, raced |-> FALSE,
     locked |-> FALSE, visudo |-> "none",
     live0 |-> <<>>, liveAtLock |-> <<>>,
     liveWrites |-> 0, wroteTmp |-> FALSE, edited |-> FALSE, nbackup |-> 0]

NoPrev ==
    [valid |-> FALSE, req |-> NoRequest, result |-> "none",
     action |-> "none", changed |-> FALSE, live0 |-> <<>>, liveEnd |-> <<>>,
     tmpLeft |-> FALSE, tmpEnd |-> <<>>]

\* Init: no invocation runs; the live file exists with some content, or is
\* missing; no staged file.
Init ==
    /\ \E f \in InitialFiles, e \in BOOLEAN :
          /\ liveExists = e
          /\ live = IF e THEN f ELSE <<>>
          /\ (~e => f = <<>>)
    /\ tmp = <<>>
    /\ tmpExists = FALSE
    /\ cfg_file \in BOOLEAN
    /\ inv = [p \in Procs |-> IdleInv]
    /\ runs = 0
    /\ prev = NoPrev

\* The live files the concurrent invocations of Spec start on: an empty one
\* and one that holds the default entry of user jo.
ConcFiles == {<<>>, Entry(SpecJo)}

InitConc ==
    /\ live \in ConcFiles
    /\ liveExists = TRUE
    /\ tmp = <<>>
    /\ tmpExists = FALSE
    /\ cfg_file \in BOOLEAN
    /\ inv = [p \in Procs |-> IdleInv]
    /\ runs = 0
    /\ prev = NoPrev

Files == <<live, liveExists, tmp, tmpExists>>

\* module.fail_json / module.exit_json / an uncaught exception: the process
\* ends with the given result.
Exit(p, res) == inv' = [inv EXCEPT ![p].pc = "exit", ![p].result = res]

Goto(p, to) == inv' = [inv EXCEPT ![p].pc = to]

(***************************************************************************)
(* main(): construction of the Sudoers object from the parameters.         *)
(***************************************************************************)
NewInv(r) ==
    [IdleInv EXCEPT !.pc = "is_listed", !.req = r, !.live0 = live]

\* The requests of the concurrent invocations of Spec: those for user jo and
\* for user joe with the default host, commands and password flag.
ConcRequests == {r \in Requests : r.spec \in {SpecJo, SpecJoe}}

\* A process starts its invocation, at any time.  The processes are
\* interchangeable, so they are numbered in the order they start.
Start(p) ==
    /\ inv[p].pc = "idle"
    /\ \A q \in Procs : q < p => inv[q].pc # "idle"
    /\ \E r \in ConcRequests : inv' = [inv EXCEPT ![p] = NewInv(r)]
    /\ runs' = runs + 1
    /\ UNCHANGED <<Files, cfg_file, prev>>

\* The one caller of SpecOne starts its single invocation.
StartOne(p) ==
    /\ p = 1
    /\ inv[p].pc = "idle"
    /\ \E r \in Requests : inv' = [inv EXCEPT ![p] = NewInv(r)]
    /\ runs' = runs + 1
    /\ UNCHANGED <<Files, cfg_file, prev>>

\* The summary of process p's finished invocation, with the files as it left
\* them: the next invocation of SpecSeq starts on these.
Summary(p) ==
    [valid |-> TRUE, req |-> inv[p].req, result |-> inv[p].result,
     action |-> inv[p].action, changed |-> inv[p].changed,
     live0 |-> inv[p].live0, liveEnd |-> live,
     tmpLeft |-> tmpExists, tmpEnd |-> tmp]

\* The one caller of SpecSeq starts an invocation when none is running: the
\* first one, or the next one after the previous has ended.
StartSeq(p) ==
    /\ p = 1
    /\ inv[p].pc \in {"idle", "exit"}
    /\ runs < MaxRuns
    /\ \E r \in Requests : inv' = [inv EXCEPT ![p] = NewInv(r)]
    /\ prev' = IF inv[p].pc = "exit" THEN Summary(p) ELSE prev
    /\ runs' = runs + 1
    /\ UNCHANGED <<Files, cfg_file>>

(***************************************************************************)
(* Sudoers.is_listed and the dispatch of main() on its result.             *)
(***************************************************************************)
\* create_cfg_file: open(self.sudoers_path, 'w') creates the file or
\* truncates it.
create_cfg_file ==
    /\ live' = <<>>
    /\ liveExists' = TRUE

\* is_listed, lines 179-183: with cfg_file set, create_cfg_file() when the
\* staged file is absent; otherwise raise('...'), a TypeError that main()
\* catches at line 276 and reports as "sudoers file is missing".
is_listed_cfg(p) ==
    /\ inv[p].pc = "is_listed"
    /\ cfg_file
    /\ IF ~tmpExists
       THEN /\ create_cfg_file
            /\ inv' = [inv EXCEPT
                         ![p].pc = "readlines",
                         ![p].liveWrites =
                            IF liveExists /\ live = <<>> THEN @ ELSE @ + 1]
       ELSE /\ Exit(p, "missing")
            /\ UNCHANGED <<live, liveExists>>
    /\ UNCHANGED <<tmp, tmpExists, cfg_file, runs, prev>>

\* The branch of main() (lines 279, 296, 314) for a classification.
Branch(listed, listed_exactly, state) ==
    IF listed /\ state = "absent" THEN "remove"
    ELSE IF listed /\ ~listed_exactly /\ state = "present" THEN "replace"
    ELSE IF ~listed /\ state = "present" THEN "add"
    ELSE "noop"

\* is_listed, lines 185-200, and main() up to the branch: readlines() raises
\* IOError when the live file is missing (reported at line 277); otherwise
\* the lines are classified and main() enters a branch, or exits unchanged.
is_listed_read(p) ==
    /\ \/ inv[p].pc = "readlines"
       \/ inv[p].pc = "is_listed" /\ ~cfg_file
    /\ IF ~liveExists
       THEN Exit(p, "missing")
       ELSE \E lines \in {readlines(live)} :
            \E c \in {Classify(lines, inv[p].req.spec)} :
            \E b \in {Branch(c.listed, c.listed_exactly, inv[p].req.state)} :
               inv' = [inv EXCEPT
                         ![p].listed = c.listed,
                         ![p].listed_exactly = c.listed_exactly,
                         ![p].action = b,
                         ![p].pc = IF b = "noop" THEN "exit" ELSE "lock",
                         ![p].result = IF b = "noop" THEN "ok" ELSE @]
    /\ UNCHANGED <<Files, cfg_file, runs, prev>>

(***************************************************************************)
(* Sudoers.lock: three separate system calls.                              *)
(***************************************************************************)
\* A lock() whose check does not reject: it goes on to the copy whether or
\* not the staged file exists.
lock_check_no_reject(p) ==
    /\ inv[p].pc = "lock"
    /\ inv' = [inv EXCEPT ![p].pc = "lock_copy", ![p].sawAbsent = ~tmpExists]
    /\ UNCHANGED <<Files, cfg_file, runs, prev>>

\* Line 129-130: os.path.isfile(tmp); IOError when the staged file exists,
\* reported at lines 283, 300, 318 as "sudoers is locked by another user".
lock_check(p) ==
    /\ inv[p].pc = "lock"
    /\ IF tmpExists
       THEN Exit(p, "locked")
       ELSE inv' = [inv EXCEPT ![p].pc = "lock_copy", ![p].sawAbsent = TRUE]
    /\ UNCHANGED <<Files, cfg_file, runs, prev>>

\* Line 132: shutil.copyfile(live, tmp) creates or overwrites the staged file
\* with the live file's content; its IOError (live file missing) is reported
\* as the lock being held.
lock_copy(p) ==
    /\ inv[p].pc = "lock_copy"
    /\ IF liveExists
       THEN /\ tmp' = live
            /\ tmpExists' = TRUE
            /\ inv' = [inv EXCEPT
                         ![p].pc = "lock_chmod",
                         ![p].liveAtLock = live,
                         ![p].raced = tmpExists /\ inv[p].sawAbsent,
                         ![p].wroteTmp = TRUE]
       ELSE /\ Exit(p, "locked")
            /\ UNCHANGED <<tmp, tmpExists>>
    /\ UNCHANGED <<live, liveExists, cfg_file, runs, prev>>

\* The statement of main() that follows lock(): the backup when requested,
\* else the first edit of the branch.
FirstEdit(a) == IF a = "add" THEN "add_user" ELSE "remove_user"

\* A main() that never calls the backup collaborator.
AfterLock_no_backup(p) == FirstEdit(inv[p].action)

AfterLock(p) ==
    IF inv[p].req.backup THEN "backup" ELSE FirstEdit(inv[p].action)

\* Line 133: os.chmod(tmp, 0440); an OSError (staged file gone) is caught by
\* nobody.  Permission bits are not part of the state: no step reads them.
lock_chmod(p) ==
    /\ inv[p].pc = "lock_chmod"
    /\ IF tmpExists
       THEN inv' = [inv EXCEPT ![p].pc = AfterLock(p), ![p].locked = TRUE]
       ELSE Exit(p, "crash")
    /\ UNCHANGED <<Files, cfg_file, runs, prev>>

(***************************************************************************)
(* main(): backup, the edits, commit, rollback.                            *)
(***************************************************************************)
\* Lines 285-286, 302-303, 320-321: module.backup_local(sudoers_path), outside
\* the try block.  The collaborator returns, or fails and ends the process
\* (fail_json or an exception): no handler runs.
backup_local(p) ==
    /\ inv[p].pc = "backup"
    /\ \E ok \in BOOLEAN :
          IF ok
          THEN inv' = [inv EXCEPT ![p].pc = FirstEdit(inv[p].action),
                                  ![p].nbackup = @ + 1]
          ELSE inv' = [inv EXCEPT ![p].pc = "exit", ![p].result = "backup",
                                  ![p].nbackup = @ + 1]
    /\ UNCHANGED <<Files, cfg_file, runs, prev>>

\* remove_user (lines 202-211): reads the LIVE file, and writes the lines
\* that do not match the large pattern to the staged file, opened with 'w'
\* (created or truncated).  An exception (live file missing, open or write
\* failing) leads to the except clause of main().
remove_user(p) ==
    /\ inv[p].pc = "remove_user"
    /\ \E ok \in BOOLEAN :
          IF ok /\ liveExists
          THEN /\ \E lines \in {readlines(live)} :
                     tmp' = Concat(KeptLines(lines, inv[p].req.spec))
               /\ tmpExists' = TRUE
               /\ inv' = [inv EXCEPT
                            ![p].pc = IF inv[p].action = "replace"
                                      THEN "add_user" ELSE "validate",
                            ![p].wroteTmp = TRUE, ![p].edited = TRUE]
          ELSE /\ inv' = [inv EXCEPT ![p].pc = "rollback",
                                     ![p].edited = TRUE]
               /\ UNCHANGED <<tmp, tmpExists>>
    /\ UNCHANGED <<live, liveExists, cfg_file, runs, prev>>

\* add_user (lines 213-227): appends the entry to the staged file, opened
\* with 'a' (created when absent).
add_user(p) ==
    /\ inv[p].pc = "add_user"
    /\ \E ok \in BOOLEAN :
          IF ok
          THEN /\ tmp' = (IF tmpExists THEN tmp ELSE <<>>)
                         \o Entry(inv[p].req.spec)
               /\ tmpExists' = TRUE
               /\ inv' = [inv EXCEPT ![p].pc = "validate",
                                     ![p].wroteTmp = TRUE, ![p].edited = TRUE]
          ELSE /\ inv' = [inv EXCEPT ![p].pc = "rollback",
                                     ![p].edited = TRUE]
               /\ UNCHANGED <<tmp, tmpExists>>
    /\ UNCHANGED <<live, liveExists, cfg_file, runs, prev>>

\* commit, lines 139-140: os.system('visudo -c -f tmp').  The validator is an
\* external program: it accepts or rejects the staged file, and rejects a
\* missing one.
commit_visudo(p) ==
    /\ inv[p].pc = "validate"
    /\ \E ok \in BOOLEAN :
          IF ok /\ tmpExists
          THEN inv' = [inv EXCEPT ![p].pc = "move", ![p].visudo = "ok"]
          ELSE inv' = [inv EXCEPT ![p].pc = "rollback",
                                  ![p].visudo = "failed"]
    /\ UNCHANGED <<Files, cfg_file, runs, prev>>

\* commit, line 142: shutil.move(tmp, live), then args['changed'] = True and
\* exit_json; a failing move leads to the except clause.
commit_move(p) ==
    /\ inv[p].pc = "move"
    /\ \E ok \in BOOLEAN :
          IF ok /\ tmpExists
          THEN /\ live' = tmp
               /\ liveExists' = TRUE
               /\ tmp' = <<>>
               /\ tmpExists' = FALSE
               /\ inv' = [inv EXCEPT
                            ![p].pc = "exit", ![p].result = "ok",
                            ![p].changed = TRUE,
                            ![p].liveWrites =
                               IF liveExists /\ live = tmp THEN @ ELSE @ + 1,
                            ![p].wroteTmp = TRUE]
          ELSE /\ Goto(p, "rollback")
               /\ UNCHANGED Files
    /\ UNCHANGED <<cfg_file, runs, prev>>

\* An except clause that reports the error without removing the staged file.
rollback_no_remove(p) ==
    /\ inv[p].pc = "rollback"
    /\ Exit(p, "commit")
    /\ UNCHANGED <<Files, cfg_file, runs, prev>>

\* The except clause (lines 292-294, 310-312, 327-329): rollback() removes the
\* staged file, then fail_json("commit failed"); os.remove raises OSError on
\* a missing file, which nobody catches.
rollback(p) ==
    /\ inv[p].pc = "rollback"
    /\ IF tmpExists
       THEN /\ tmp' = <<>>
            /\ tmpExists' = FALSE
            /\ inv' = [inv EXCEPT ![p].pc = "exit", ![p].result = "commit",
                                  ![p].wroteTmp = TRUE]
       ELSE /\ Exit(p, "crash")
            /\ UNCHANGED <<tmp, tmpExists>>
    /\ UNCHANGED <<live, liveExists, cfg_file, runs, prev>>

(***************************************************************************)
(* Specifications.                                                         *)
(***************************************************************************)
Step(p) ==
    \/ is_listed_cfg(p)
    \/ is_listed_read(p)
    \/ lock_check(p)
    \/ lock_copy(p)
    \/ lock_chmod(p)
    \/ backup_local(p)
    \/ remove_user(p)
    \/ add_user(p)
    \/ commit_visudo(p)
    \/ commit_move(p)
    \/ rollback(p)

\* Concurrent invocations: each process runs one invocation, the steps of
\* different processes interleave.
Next == \E p \in Procs : Start(p) \/ Step(p)

Spec == InitConc /\ [][Next]_vars

\* One invocation, alone.
NextOne == \E p \in Procs : StartOne(p) \/ Step(p)

SpecOne == Init /\ [][NextOne]_vars

\* One caller running invocations one after the other.
NextSeq == \E p \in Procs : StartSeq(p) \/ Step(p)

SpecSeq == Init /\ [][NextSeq]_vars

\* The methods of Sudoers called on their own on a main file (cfg_file unset),
\* as a caller of the class would: add_user() of a Sudoers object built for
\* sp, on an empty staged file that is then the file read; and is_listed() of
\* a Sudoers object built for sp on the file as it is.
InitFn ==
    /\ live \in InitialFiles
    /\ liveExists = TRUE
    /\ tmp = <<>>
    /\ tmpExists = FALSE
    /\ cfg_file = FALSE
    /\ inv = [p \in Procs |-> IdleInv]
    /\ runs = 0
    /\ prev = NoPrev

\* add_user (lines 213-227) into an empty file: the file holds the entry.
add_user_alone(p) ==
    /\ p = 1
    /\ inv[p].pc = "idle"
    /\ runs = 0
    /\ live = <<>>
    /\ \E sp \in MethodSpecs :
          /\ live' = Entry(sp)
          /\ prev' = [NoPrev EXCEPT !.valid = TRUE, !.req.spec = sp,
                                    !.action = "add", !.result = "ok",
                                    !.liveEnd = Entry(sp)]
    /\ runs' = 1
    /\ UNCHANGED <<liveExists, tmp, tmpExists, cfg_file, inv>>

\* is_listed (lines 185-200) on the file: the pair it returns.
is_listed_alone(p) ==
    /\ p = 1
    /\ inv[p].pc = "idle"
    /\ \E sp \in MethodSpecs :
          \E c \in {Classify(readlines(live), sp)} :
              inv' = [inv EXCEPT
                        ![p].pc = "exit", ![p].result = "ok",
                        ![p].req.spec = sp, ![p].live0 = live,
                        ![p].listed = c.listed,
                        ![p].listed_exactly = c.listed_exactly]
    /\ UNCHANGED <<Files, cfg_file, runs, prev>>

NextFn == \E p \in Procs : add_user_alone(p) \/ is_listed_alone(p)

SpecFn == InitFn /\ [][NextFn]_vars

\* One invocation, alone, whose process keeps running: main() is straight-line
\* code, and the validator and the backup collaborator return, so a step that
\* stays possible is eventually taken.
FairOne == SpecOne /\ \A p \in Procs : WF_vars(Step(p))

\* Concurrent invocations, each process scheduled fairly.
FairSpec == Spec /\ \A p \in Procs : WF_vars(Step(p))

(***************************************************************************)
(* Properties.                                                             *)
(***************************************************************************)
Ended(p) == inv[p].pc = "exit"

\* Process p is between a successful lock() and its commit or rollback.
InTransaction(p) ==
    /\ inv[p].locked
    /\ inv[p].pc \in {"backup", "remove_user", "add_user", "validate",
                      "move", "rollback"}

\* C1: the content of the live file changes only in the step that moves the
\* staged file onto it, at most once per invocation, and only after the
\* validator has accepted the staged file in that invocation.
C1_LiveChangesOnlyInCommit ==
    [][live' # live =>
          \E p \in Procs :
             /\ inv[p].pc = "move"
             /\ inv[p].visudo = "ok"
             /\ inv[p].liveWrites = 0
             /\ inv'[p].pc = "exit"]_vars

\* C2: in an invocation that runs alone, once the validator has reported
\* failure the invocation is in its except clause with the staged file still
\* there to remove, or has ended with the "commit failed" error, unchanged,
\* with no staged file; the live file is as it was when lock() copied it.
C2_ValidationFailureRollsBack ==
    \A p \in Procs :
       inv[p].visudo = "failed" =>
          /\ live = inv[p].liveAtLock
          /\ ~inv[p].changed
          /\ \/ inv[p].pc = "rollback" /\ tmpExists
             \/ /\ Ended(p)
                /\ inv[p].result = "commit"
                /\ ~tmpExists

\* C2 witness: a replace transaction on a non-empty file has ended after the
\* validator rejected its staged file.
C2_Witness ==
    \E p \in Procs :
       /\ Ended(p)
       /\ inv[p].visudo = "failed"
       /\ inv[p].action = "replace"
       /\ inv[p].liveAtLock # <<>>

\* C3: an invocation that acquired the lock and ended in error has left no
\* staged file, and the live file as it was at lock acquisition.
C3_EveryFailureRollsBack ==
    \A p \in Procs :
       (Ended(p) /\ inv[p].locked /\ inv[p].result # "ok") =>
          /\ ~tmpExists
          /\ live = inv[p].liveAtLock

\* C4 as claimed: at most one invocation at a time is between a successful
\* lock() and its commit or rollback.
C4_MutualExclusion ==
    Cardinality({p \in Procs : InTransaction(p)}) <= 1

\* Process p has passed the existence check of lock().
PastCheck(p) ==
    inv[p].pc \in {"lock_copy", "lock_chmod"} \/ InTransaction(p)

\* C4 amended: lock() rejects every invocation whose existence check finds
\* the staged file, so whoever is past the check found none; and as long as
\* no invocation's copy has found a staged file that its check had not seen
\* (the check-then-copy race), at most one invocation at a time is between a
\* successful lock() and its commit or rollback.
C4_ExclusionUnlessCopyRace ==
    /\ \A p \in Procs : PastCheck(p) => inv[p].sawAbsent
    /\ (\A p \in Procs : ~inv[p].raced) =>
          Cardinality({p \in Procs : InTransaction(p)}) <= 1

\* C4 witness: one invocation is inside its transaction and another one,
\* whose lock() ran meanwhile, has been rejected; no copy has raced.
C4_Witness ==
    /\ \A p \in Procs : ~inv[p].raced
    /\ \E p, q \in Procs :
          /\ p # q
          /\ InTransaction(p)
          /\ Ended(q)
          /\ inv[q].result = "locked"

\* The row of the decision table for a file content and a request.
Row(content, r) ==
    LET c == Classify(readlines(content), r.spec)
    IN  Branch(c.listed, c.listed_exactly, r.state)

\* C5: an invocation that needs an edit and starts while the staged file
\* exists (left there by the invocation before it) ends with the lock-held
\* error, unchanged, and leaves the live file and the staged file as they
\* were.
C5_StagedPresentRejected ==
    \A p \in Procs :
       (/\ prev.valid
        /\ prev.tmpLeft
        /\ Ended(p)
        /\ Row(inv[p].live0, inv[p].req) # "noop")
       => /\ inv[p].result = "locked"
          /\ ~inv[p].changed
          /\ live = inv[p].live0
          /\ tmpExists
          /\ tmp = prev.tmpEnd

\* C6: an invocation in a no-op row (by the file it started on and by its own
\* classification) ends unchanged without having taken the lock or touched
\* the staged file, and the live file has the content it started with.
C6_NoOpTouchesNothing ==
    \A p \in Procs :
       (Ended(p) /\ inv[p].action = "noop"
                 /\ Row(inv[p].live0, inv[p].req) = "noop")
       => /\ inv[p].result = "ok"
          /\ ~inv[p].changed
          /\ ~inv[p].locked
          /\ ~inv[p].wroteTmp
          /\ live = inv[p].live0

\* C7: the same request repeated after a successful invocation with state
\* present reports changed=false and leaves the live file as the first
\* invocation left it.
C7_RepeatIsNoChange ==
    \A p \in Procs :
       (/\ prev.valid
        /\ prev.req.state = "present"
        /\ prev.result = "ok"
        /\ Ended(p)
        /\ inv[p].req = prev.req)
       => /\ inv[p].result = "ok"
          /\ ~inv[p].changed
          /\ live = prev.liveEnd

\* The lines of a sequence whose stripped form does not match the large
\* pattern of sp.
NonMatching(lines, sp) ==
    SelectSeq(lines, LAMBDA l : ~ReMatch(get_large_pattern(sp), Strip(l)))

\* C8: a successful add on a file without any line for the principal,
\* followed by a successful absent request for the same principal, leaves
\* the lines of the live file as they were before the add.
C8_AddThenRemoveRoundTrip ==
    \A p \in Procs :
       (/\ prev.valid
        /\ prev.action = "add"
        /\ prev.result = "ok"
        /\ NonMatching(readlines(prev.live0), prev.req.spec)
              = readlines(prev.live0)
        /\ Ended(p)
        /\ inv[p].result = "ok"
        /\ inv[p].req.state = "absent"
        /\ inv[p].req.spec.name = prev.req.spec.name
        /\ inv[p].req.spec.kind = prev.req.spec.kind)
       => readlines(live) = readlines(prev.live0)

\* C9: after an invocation that ended without error, the live file classifies
\* as exact when the desired state is present and as not listed when it is
\* absent, and changed is reported exactly when the content differs from the
\* initial one.
C9_DesiredStateReached ==
    \A p \in Procs :
       (Ended(p) /\ inv[p].result = "ok") =>
          LET c == Classify(readlines(live), inv[p].req.spec)
          IN  /\ inv[p].req.state = "present" => c.listed_exactly
              /\ inv[p].req.state = "absent" => ~c.listed
              /\ inv[p].changed <=> live # inv[p].live0

\* C10: a successful replace leaves the original lines that do not match the
\* large pattern, in their order, followed by the one rendered line; when a
\* line matches strictly nothing is edited.
C10_ReplaceCollapses ==
    \A p \in Procs :
       (Ended(p) /\ inv[p].result = "ok") =>
          /\ inv[p].action = "replace" =>
                readlines(live) =
                   NonMatching(readlines(inv[p].live0), inv[p].req.spec)
                   \o <<Entry(inv[p].req.spec)>>
          /\ (inv[p].listed_exactly /\ inv[p].req.state = "present") =>
                (live = inv[p].live0 /\ ~inv[p].changed /\ ~inv[p].wroteTmp)

\* C11: the strict pattern built for a specification matches the line that
\* add_user renders for a specification exactly when the two are the same one:
\* is_listed for S on the file that holds the one line rendered for S'
\* returns listed_exactly iff S = S'.
C11_StrictMatchesOwnLineOnly ==
    \A p \in Procs :
       (Ended(p) /\ prev.valid) =>
          (inv[p].listed_exactly <=> inv[p].req.spec = prev.req.spec)

\* The reference classification of a file's lines for sp: over the lines whose
\* stripped form does not start with "#", present iff some line matches the
\* large pattern, exact iff some line matches the strict pattern.
RefClassify(lines, sp) ==
    LET considered == {i \in 1..Len(lines) : ~StartsWithHash(Strip(lines[i]))}
    IN  [listed |-> \E i \in considered :
                       ReMatch(get_large_pattern(sp), Strip(lines[i])),
         listed_exactly |-> \E i \in considered :
                       ReMatch(get_strict_pattern(sp), Strip(lines[i]))]

\* C12: the pair is_listed returns to main() is the reference classification
\* of the file the invocation was started on; an empty file gives
\* (false, false), and exact implies present.
C12_ClassificationIsReference ==
    \A p \in Procs :
       inv[p].action # "none" =>
          LET ref == RefClassify(readlines(inv[p].live0), inv[p].req.spec)
          IN  /\ inv[p].listed = ref.listed
              /\ inv[p].listed_exactly = ref.listed_exactly
              /\ inv[p].live0 = <<>> => (~inv[p].listed /\ ~inv[p].listed_exactly)
              /\ inv[p].listed_exactly => inv[p].listed

\* C13: the step an invocation takes out of the start of is_listed while the
\* live file does not exist ends it with the "file is missing" error and
\* changes no file: none is created, none is edited.
C13_MissingLiveFileFails ==
    [][\A p \in Procs :
          (inv[p].pc = "is_listed" /\ inv'[p].pc # "is_listed" /\ ~liveExists)
          => /\ inv'[p].pc = "exit"
             /\ inv'[p].result = "missing"
             /\ ~inv'[p].changed
             /\ UNCHANGED Files]_vars

\* C14: the step out of the except clause leaves no staged file, whether or
\* not there was one to remove, and ends the invocation with the
\* "commit failed" error of the original failure.
C14_RollbackIdempotent ==
    [][\A p \in Procs :
          (inv[p].pc = "rollback" /\ inv'[p].pc # "rollback")
          => /\ ~tmpExists'
             /\ inv'[p].pc = "exit"
             /\ inv'[p].result = "commit"]_vars

\* C15: module.backup_local has been called at most once; it has been called
\* only with the backup flag set and after lock() returned, so never in a
\* no-op or lock-rejected invocation; and once remove_user or add_user has
\* been called, or the validator has run, with the backup flag set, the
\* backup has already been made.
C15_BackupOrdering ==
    \A p \in Procs :
       /\ inv[p].nbackup <= 1
       /\ inv[p].nbackup > 0 => (inv[p].req.backup /\ inv[p].locked)
       /\ (inv[p].action = "noop" \/ inv[p].result = "locked")
             => inv[p].nbackup = 0
       /\ (inv[p].edited \/ inv[p].visudo # "none" \/ inv[p].changed)
             => inv[p].nbackup = (IF inv[p].req.backup THEN 1 ELSE 0)
       /\ (inv[p].pc = "backup")
             => (~inv[p].edited /\ inv[p].visudo = "none" /\ inv[p].nbackup = 0)

\* C15 witness: a replace with the backup flag set has committed after both
\* edits, with its one backup made.
C15_Witness ==
    \E p \in Procs :
       /\ Ended(p)
       /\ inv[p].changed
       /\ inv[p].action = "replace"
       /\ inv[p].req.backup
       /\ inv[p].nbackup = 1

\* C16: the step in which an invocation commits and reports changed=true
\* leaves a live file that reflects its own edit: it holds the invocation's
\* rendered line when the desired state is present, and no line matching the
\* invocation's large pattern when it is absent.
C16_CommitReflectsOwnEdit ==
    [][\A p \in Procs :
          (~inv[p].changed /\ inv'[p].changed) =>
             LET lines == readlines(live')
                 sp    == inv[p].req.spec
             IN  /\ inv[p].req.state = "present" =>
                       \E i \in 1..Len(lines) : lines[i] = Entry(sp)
                 /\ inv[p].req.state = "absent" =>
                       NonMatching(lines, sp) = lines]_vars

\* C17: when the live file started without a line for the principal and
\* every invocation so far requested the same specification with state
\* present, the live file holds at most one line matching the large pattern.
C17_AtMostOneLine ==
    \A sp \in GrantSpecs :
       (/\ inv[1].pc # "idle"
        /\ NonMatching(readlines(inv[1].live0), sp) = readlines(inv[1].live0)
        /\ \A p \in Procs :
              inv[p].pc # "idle" =>
                 (inv[p].req.spec = sp /\ inv[p].req.state = "present"))
       => Len(NonMatching(readlines(live), sp)) >= Len(readlines(live)) - 1

\* C18: while an invocation is between the validator's successful return and
\* its move, no step creates, writes or removes the staged file, so the
\* content moved onto the live file is the content the validator accepted.
C18_PromotedIsValidated ==
    [][\A p \in Procs :
          (inv[p].pc = "move" /\ inv[p].visudo = "ok" /\ inv'[p].pc = "move")
          => UNCHANGED <<tmp, tmpExists>>]_vars

\* The principal a line grants to: its stripped text up to the first space.
RECURSIVE FirstToken(_)
FirstToken(s) ==
    IF s = <<>> \/ Head(s) = " " THEN <<>>
    ELSE <<Head(s)>> \o FirstToken(Tail(s))

\* The line is a grant to a principal other than sp's.
OtherPrincipal(line, sp) ==
    /\ Strip(line) # <<>>
    /\ ~StartsWithHash(Strip(line))
    /\ FirstToken(Strip(line)) # Identity(sp)

OtherLines(lines, sp) == SelectSeq(lines, LAMBDA l : OtherPrincipal(l, sp))

\* C19: after a successful invocation for sp the lines of the live file that
\* grant to other principals are those of the file it started on, unchanged
\* and in their order; and a file whose grants are all to other principals
\* does not classify sp as listed.
C19_OtherPrincipalsUntouched ==
    \A p \in Procs :
       LET sp  == inv[p].req.spec
           old == readlines(inv[p].live0)
       IN  /\ (Ended(p) /\ inv[p].result = "ok")
                => OtherLines(readlines(live), sp) = OtherLines(old, sp)
           /\ (inv[p].action # "none"
                 /\ \A i \in 1..Len(old) :
                       OtherPrincipal(old[i], sp) \/ StartsWithHash(Strip(old[i])))
                => ~inv[p].listed

\* C20: every invocation that has started eventually ends, and whenever the
\* staged file exists it eventually does not.
C20_LockEventuallyReleased ==
    /\ \A p \in Procs : (inv[p].pc # "idle") ~> Ended(p)
    /\ tmpExists ~> ~tmpExists

====
